---------------------------- MODULE Spec2Model ----------------------------
(***************************************************************************)
(* OSRS High Alchemy profit finder (src/index.ts).                         *)
(*                                                                         *)
(* One run of the script: two HTTP fetches issued together, joined by      *)
(* Promise.all, then calculateProfits, then displayResults, then exit.     *)
(* Values of type "number | null" are modelled as <<>> (null) or <<v>>.    *)
(* All numbers of the model are small integers, far from the range where   *)
(* a JavaScript double loses integer precision.                            *)
(***************************************************************************)
EXTENDS Integers, Sequences, FiniteSets, TLC

\* ------------------------------------------------------------------ bounds

\* Longest catalog enumerated entry by entry.
MaxItems == 2

\* The generated long catalogs have up to TopN + MaxOver entries.
MaxOver == 2

\* ------------------------------------------------------- program constants

NatureRuneId == 561
DefaultNatureRunePrice == 100
DefaultLimit == 1000
TopN == 50
SummaryRuneCost == 100
NameCap == 25
NameKeep == 22

\* --------------------------------------------------------- number | null

Null == <<>>

Some(v) == <<v>>

\* JavaScript truthiness of a number | null: null and 0 are falsy.
Truthy(x) == x # Null /\ x[1] # 0

\* ------------------------------------------------------------- formatting

Pad2(n) == IF n < 10 THEN "0" \o ToString(n) ELSE ToString(n)

Pad3(n) == IF n < 10 THEN "00" \o ToString(n) ELSE IF n < 100 THEN "0" \o ToString(n) ELSE ToString(n)

\* num.toLocaleString("en-US") of a non-negative integer: groups of three.
RECURSIVE formatNumber(_)
formatNumber(num) ==
    IF num < 1000 THEN ToString(num)
    ELSE formatNumber(num \div 1000) \o "," \o Pad3(num % 1000)

\* toFixed rounds to the nearest step (here: half up; the model's values
\* never sit on an exact half).
formatPrice(num) ==
    IF num >= 1000000000 THEN
        LET h == (num + 5000000) \div 10000000
        IN  ToString(h \div 100) \o "." \o Pad2(h % 100) \o "B"
    ELSE IF num >= 1000000 THEN
        LET h == (num + 5000) \div 10000
        IN  ToString(h \div 100) \o "." \o Pad2(h % 100) \o "M"
    ELSE IF num >= 1000 THEN
        LET t == (num + 50) \div 100
        IN  ToString(t \div 10) \o "." \o ToString(t % 10) \o "K"
    ELSE ToString(num)

formatTimeAgo(timestamp, now) ==
    IF ~Truthy(timestamp) THEN "Unknown"
    ELSE LET diff == now - timestamp[1]
         IN  IF diff < 60 THEN "Just now"
             ELSE IF diff < 3600 THEN ToString(diff \div 60) \o "m ago"
             ELSE IF diff < 86400 THEN ToString(diff \div 3600) \o "h ago"
             ELSE ToString(diff \div 86400) \o "d ago"

\* minutes = diff / 60 is compared with 10 and 30: diff with 600 and 1800.
\* The glyph in front of each word is left out of the strings.
getFreshnessIndicator(timestamp, now) ==
    IF ~Truthy(timestamp) THEN "Unknown"
    ELSE LET diff == now - timestamp[1]
         IN  IF diff < 600 THEN "Fresh"
             ELSE IF diff < 1800 THEN "Stale"
             ELSE "Old"

\* ------------------------------------------------------- calculateProfits

\* Mutant: ?? in place of ||, so that a high price of 0 is used as it is.
NATURE_RUNE_PRICE_nullish(prices) ==
    LET k == ToString(NatureRuneId)
    IN  IF k \in DOMAIN prices /\ prices[k].high # Null
        THEN prices[k].high[1]
        ELSE DefaultNatureRunePrice

\* prices["561"]?.high || 100
NATURE_RUNE_PRICE(prices) ==
    LET k == ToString(NatureRuneId)
    IN  IF k \in DOMAIN prices /\ Truthy(prices[k].high)
        THEN prices[k].high[1]
        ELSE DefaultNatureRunePrice

\* Mutant: ?? in place of ||, so that a limit of 0 multiplies the profit.
effectiveLimit_nullish(item) ==
    IF item.limit # Null THEN item.limit[1] ELSE DefaultLimit

\* item.limit || 1000
effectiveLimit(item) ==
    IF Truthy(item.limit) THEN item.limit[1] ELSE DefaultLimit

\* Mutant: the reagent cost is not subtracted.
profit_noRune(item, buyPrice, runePrice) == item.highalch[1] - buyPrice

\* item.highalch - buyPrice - NATURE_RUNE_PRICE
profit(item, buyPrice, runePrice) == item.highalch[1] - buyPrice - runePrice

\* The three "continue" conditions of the loop body, negated.
hasBuyPrice(item, prices) ==
    /\ Truthy(item.highalch)
    /\ item.highalch[1] > 0
    /\ ToString(item.id) \in DOMAIN prices
    /\ Truthy(prices[ToString(item.id)].high)

\* Mutant: >= in place of >.
isProfitable_orEven(p) == p >= 0

\* if (profit > 0)
isProfitable(p) == p > 0

\* The object pushed onto profitableItems.
AlchemyItem(item, priceData, runePrice) ==
    LET buyPrice == priceData.high[1]
        p == profit(item, buyPrice, runePrice)
    IN  [id |-> item.id,
         name |-> item.name,
         members |-> item.members,
         highAlchValue |-> item.highalch[1],
         buyPrice |-> buyPrice,
         sellPrice |-> IF Truthy(priceData.low) THEN priceData.low[1] ELSE buyPrice,
         profit |-> p,
         buyLimit |-> item.limit,
         batchProfit |-> p * effectiveLimit(item),
         priceTimestamp |-> priceData.highTime]

\* The for loop: entries i..Len(items), in catalog order.
RECURSIVE collect(_, _, _, _)
collect(items, prices, runePrice, i) ==
    IF i > Len(items) THEN <<>>
    ELSE LET item == items[i]
             rest == collect(items, prices, runePrice, i + 1)
         IN  IF /\ hasBuyPrice(item, prices)
                /\ isProfitable(profit(item, prices[ToString(item.id)].high[1], runePrice))
             THEN <<AlchemyItem(item, prices[ToString(item.id)], runePrice)>> \o rest
             ELSE rest

\* (a, b) => b.profit - a.profit
compare(a, b) == b.profit - a.profit

\* Mutant: an unstable sort, which puts r in front of the elements it ties with.
RECURSIVE insertSorted_unstable(_, _)
insertSorted_unstable(sorted, r) ==
    IF sorted = <<>> THEN <<r>>
    ELSE IF compare(Head(sorted), r) < 0
         THEN <<Head(sorted)>> \o insertSorted_unstable(Tail(sorted), r)
         ELSE <<r>> \o sorted

\* Array.prototype.sort is stable: r goes behind every element that the
\* comparator does not order after it.
RECURSIVE insertSorted(_, _)
insertSorted(sorted, r) ==
    IF sorted = <<>> THEN <<r>>
    ELSE IF compare(Head(sorted), r) <= 0
         THEN <<Head(sorted)>> \o insertSorted(Tail(sorted), r)
         ELSE <<r>> \o sorted

RECURSIVE sortFrom(_, _, _)
sortFrom(arr, i, acc) ==
    IF i > Len(arr) THEN acc ELSE sortFrom(arr, i + 1, insertSorted(acc, arr[i]))

sort(arr) == sortFrom(arr, 1, <<>>)

calculateProfits(items, prices) ==
    sort(collect(items, prices, NATURE_RUNE_PRICE(prices), 1))

\* --------------------------------------------------------- displayResults

\* Mutant: the slice is forgotten.
topItems_all(items) == items

\* items.slice(0, 50)
topItems(items) == SubSeq(items, 1, IF Len(items) < TopN THEN Len(items) ELSE TopN)

truncateName(name) ==
    IF Len(name) > NameCap THEN SubSeq(name, 1, NameKeep) \o "..." ELSE name

\* One element of tableData; index is the 0-based position in topItems.
tableRow(item, index, now) ==
    [num |-> index + 1,
     Item |-> truncateName(item.name),
     Members |-> IF item.members THEN "Yes" ELSE "No",
     BuyPrice |-> formatPrice(item.buyPrice),
     HighAlch |-> formatPrice(item.highAlchValue),
     Profit |-> formatPrice(item.profit),
     BuyLimit |-> IF Truthy(item.buyLimit) THEN formatNumber(item.buyLimit[1]) ELSE "inf",
     BatchProfit |-> formatPrice(item.batchProfit),
     PriceFreshness |-> getFreshnessIndicator(item.priceTimestamp, now)
                        \o " (" \o formatTimeAgo(item.priceTimestamp, now) \o ")"]

tableData(items, now) ==
    LET top == topItems(items)
    IN  [i \in 1..Len(top) |-> tableRow(top[i], i - 1, now)]

\* The record whose name and batchProfit the "Best batch" line prints.
bestBatchItem(top) == top[1]

\* The number the "Nature rune cost" line formats.
summaryRuneCost(items) == SummaryRuneCost

\* The SUMMARY block.
summaryBlock(items) ==
    LET top == topItems(items)
    IN  [total |-> Len(items),
         topName |-> IF Len(top) > 0 /\ top[1].name # "" THEN top[1].name ELSE "N/A",
         topProfit |-> formatPrice(IF Len(top) > 0 THEN top[1].profit ELSE 0),
         bestBatchName |-> IF Len(top) > 0 /\ bestBatchItem(top).name # ""
                           THEN bestBatchItem(top).name ELSE "N/A",
         bestBatch |-> formatPrice(IF Len(top) > 0 THEN bestBatchItem(top).batchProfit ELSE 0),
         natureRuneCost |-> formatPrice(summaryRuneCost(items))]

\* ------------------------------------------------- the two response bodies

\* Ids of the catalogs enumerated entry by entry.
SmallIds == {1, 2}

\* The time (Unix seconds) of every recorded trade of the model.
TradeTime == 1000

NameOf(id) ==
    IF id % 7 = 0 THEN "Extraordinarily long item name " \o ToString(id)
    ELSE "Item " \o ToString(id)

HighalchChoices == {Null, Some(0), Some(-5), Some(300), Some(400)}

LimitChoices == {Null, Some(0), Some(3)}

\* An element of the /mapping array (the fields the program reads).
ItemMapping(id, highalch, limit) ==
    [id |-> id, name |-> NameOf(id), members |-> (id % 2 = 0),
     highalch |-> highalch, limit |-> limit]

\* Item 1 takes every alchemy value; item 2 only the positive ones.
ItemChoices ==
    {ItemMapping(1, h, l) : h \in HighalchChoices, l \in LimitChoices}
        \cup {ItemMapping(2, h, l) : h \in {Some(300), Some(400)}, l \in LimitChoices}

RECURSIVE SeqsUpTo(_, _)
SeqsUpTo(S, n) ==
    IF n = 0 THEN {<<>>}
    ELSE LET shorter == SeqsUpTo(S, n - 1)
         IN  shorter \cup {Append(s, x) : s \in {t \in shorter : Len(t) = n - 1}, x \in S}

\* A long catalog: n entries with ids 1..n, alchemy values and limits varying
\* with the id.
LongCatalog(n) ==
    [i \in 1..n |->
        ItemMapping(i, Some(300 + 100 * (i % 3)), IF i % 4 = 0 THEN Null ELSE Some(i))]

Catalogs ==
    SeqsUpTo(ItemChoices, MaxItems)
        \cup {LongCatalog(n) : n \in (TopN - 1)..(TopN + MaxOver)}

\* A value of the "data" object of /latest.
PriceData(high, low) ==
    [high |-> high,
     highTime |-> IF high = Null THEN Null ELSE Some(TradeTime),
     low |-> low,
     lowTime |-> IF low = Null THEN Null ELSE Some(TradeTime)]

QuoteChoices ==
    {PriceData(Null, Some(90)), PriceData(Some(0), Null),
     PriceData(Some(100), Some(90)), PriceData(Some(200), Null)}

RuneQuoteChoices ==
    {PriceData(Null, Some(140)), PriceData(Some(0), Null), PriceData(Some(150), Some(140))}

\* The quotes a price map may hold for an id: every one for item 1, the
\* tradable ones for item 2.
QuotesOf(id) ==
    IF id = 1 THEN QuoteChoices
    ELSE {PriceData(Some(100), Some(90)), PriceData(Some(200), Null)}

\* The maps quoting exactly the ids of present.
QuoteMaps(present) ==
    {q \in [{ToString(i) : i \in present} -> QuoteChoices] :
        \A i \in present : q[ToString(i)] \in QuotesOf(i)}

\* Price maps over the small ids: every key may be missing, the reagent's too.
SmallPrices ==
    UNION {QuoteMaps(present) : present \in SUBSET SmallIds}
        \cup UNION {{q @@ (ToString(NatureRuneId) :> r) : q \in QuoteMaps(present)}
                    : present \in SUBSET SmallIds, r \in RuneQuoteChoices}

\* A price map quoting every id of the long catalogs; the reagent's own
\* quote is there when withRune.
LongPrices(withRune) ==
    LET ids == 1..(TopN + MaxOver)
        quotes == [k \in {ToString(i) : i \in ids} |->
                     LET i == CHOOSE j \in ids : ToString(j) = k
                     IN  PriceData(Some(100 + 10 * (i % 2)), Some(90))]
    IN  IF withRune
        THEN quotes @@ (ToString(NatureRuneId) :> PriceData(Some(150), Some(140)))
        ELSE quotes

PriceMaps == SmallPrices \cup {LongPrices(TRUE), LongPrices(FALSE)}

\* Math.floor(Date.now() / 1000) at the time the table is built.
NowChoices == {TradeTime + 30, TradeTime + 900}

\* -------------------------------------------------------------- the state

VARIABLES
    mappingFetch,     \* fetchItemMapping: "pending", "response", "resolved", "rejected"
    pricesFetch,      \* fetchLatestPrices: the same
    reason,           \* the message Promise.all rejected with ("" while it has not)
    items,            \* the resolved catalog
    prices,           \* the resolved price map
    status,           \* "running" or "exited"
    exitCode,         \* the process exit status, once exited
    stdout,           \* the lines and blocks written with console.log / console.table
    stderr,           \* the console.error calls
    calcRan,          \* calculateProfits was called
    runePrice,        \* the NATURE_RUNE_PRICE of that call
    profitableItems,  \* what calculateProfits returned
    displayRan,       \* displayResults was called
    table,            \* the tableData it printed
    summary           \* the SUMMARY block it printed

vars == <<mappingFetch, pricesFetch, reason, items, prices, status, exitCode, stdout,
          stderr, calcRan, runePrice, profitableItems, displayRan, table, summary>>

NoSummary == [total |-> 0, topName |-> "", topProfit |-> "", bestBatchName |-> "",
              bestBatch |-> "", natureRuneCost |-> ""]

\* main() up to its await: the start line is printed, both fetches are issued.
Init ==
    /\ mappingFetch = "pending"
    /\ pricesFetch = "pending"
    /\ reason = ""
    /\ items = <<>>
    /\ prices = <<>>
    /\ status = "running"
    /\ exitCode = 0
    /\ stdout = <<"Fetching OSRS market data...">>
    /\ stderr = <<>>
    /\ calcRan = FALSE
    /\ runePrice = 0
    /\ profitableItems = <<>>
    /\ displayRan = FALSE
    /\ table = <<>>
    /\ summary = NoSummary

\* ------------------------------------------------------------ the fetches

\* Promise.all rejects with the reason of the first promise that rejects.
rejectAll(message) == IF reason = "" THEN message ELSE reason

fetchUnchanged ==
    UNCHANGED <<status, exitCode, stdout, stderr, calcRan, runePrice, profitableItems,
                displayRan, table, summary>>

\* fetch(BASE_URL/mapping) resolves with response.ok.
MappingResponse ==
    /\ status = "running"
    /\ mappingFetch = "pending"
    /\ mappingFetch' = "response"
    /\ UNCHANGED <<pricesFetch, reason, items, prices>>
    /\ fetchUnchanged

\* ... with !response.ok: the function throws.
MappingHttpError ==
    /\ status = "running"
    /\ mappingFetch = "pending"
    /\ mappingFetch' = "rejected"
    /\ reason' = rejectAll("Failed to fetch item mapping")
    /\ UNCHANGED <<pricesFetch, items, prices>>
    /\ fetchUnchanged

\* response.json() resolves with the catalog.
MappingJson ==
    /\ status = "running"
    /\ mappingFetch = "response"
    /\ \E body \in Catalogs : items' = body
    /\ mappingFetch' = "resolved"
    /\ UNCHANGED <<pricesFetch, reason, prices>>
    /\ fetchUnchanged

\* response.json() rejects: the body is no JSON.
MappingJsonError ==
    /\ status = "running"
    /\ mappingFetch = "response"
    /\ mappingFetch' = "rejected"
    /\ reason' = rejectAll("Unexpected token in JSON")
    /\ UNCHANGED <<pricesFetch, items, prices>>
    /\ fetchUnchanged

PricesResponse ==
    /\ status = "running"
    /\ pricesFetch = "pending"
    /\ pricesFetch' = "response"
    /\ UNCHANGED <<mappingFetch, reason, items, prices>>
    /\ fetchUnchanged

PricesHttpError ==
    /\ status = "running"
    /\ pricesFetch = "pending"
    /\ pricesFetch' = "rejected"
    /\ reason' = rejectAll("Failed to fetch latest prices")
    /\ UNCHANGED <<mappingFetch, items, prices>>
    /\ fetchUnchanged

\* response.json() resolves; the function returns data.data.
PricesJson ==
    /\ status = "running"
    /\ pricesFetch = "response"
    /\ \E data \in PriceMaps : prices' = data
    /\ pricesFetch' = "resolved"
    /\ UNCHANGED <<mappingFetch, reason, items>>
    /\ fetchUnchanged

PricesJsonError ==
    /\ status = "running"
    /\ pricesFetch = "response"
    /\ pricesFetch' = "rejected"
    /\ reason' = rejectAll("Unexpected token in JSON")
    /\ UNCHANGED <<mappingFetch, items, prices>>
    /\ fetchUnchanged

\* ------------------------------------------------------------------- main

\* Mutant: Promise.allSettled in place of Promise.all.
allFulfilled_settled ==
    /\ mappingFetch \in {"resolved", "rejected"}
    /\ pricesFetch \in {"resolved", "rejected"}

\* Promise.all fulfils once both promises have.
allFulfilled == mappingFetch = "resolved" /\ pricesFetch = "resolved"

\* Promise.all has rejected.
allRejected == reason # ""

\* Mutant: the early return is missing.
returnsEarly_never(result) == FALSE

\* if (profitableItems.length === 0) ... return
returnsEarly(result) == Len(result) = 0

\* What displayResults writes to stdout, in order.
displayLines(result) ==
    <<"OSRS HIGH ALCHEMY PROFIT TRACKER",
      "Found " \o ToString(Len(result)) \o " profitable items (sorted by profit per item)",
      "console.table(tableData)",
      "SUMMARY:",
      "Price Freshness Legend:">>

\* The try block after the await, to the end of main; the process then ends
\* with status 0.
MainResume ==
    /\ status = "running"
    /\ allFulfilled
    /\ LET result == calculateProfits(items, prices)
           loaded == <<"Loaded " \o ToString(Len(items)) \o " items and "
                         \o ToString(Cardinality(DOMAIN prices)) \o " price entries",
                       "Calculating High Alchemy profits...">>
       IN  /\ calcRan' = TRUE
           /\ runePrice' = NATURE_RUNE_PRICE(prices)
           /\ profitableItems' = result
           /\ IF returnsEarly(result)
              THEN /\ stdout' = stdout \o loaded
                                \o <<"No profitable High Alchemy items found at current prices.",
                                     "Try again later when market prices change.">>
                   /\ UNCHANGED <<displayRan, table, summary>>
              ELSE /\ displayRan' = TRUE
                   /\ \E now \in NowChoices : table' = tableData(result, now)
                   /\ summary' = summaryBlock(result)
                   /\ stdout' = stdout \o loaded \o displayLines(result)
                                \o <<"Completed in N seconds">>
    /\ status' = "exited"
    /\ exitCode' = 0
    /\ UNCHANGED <<mappingFetch, pricesFetch, reason, items, prices, stderr>>

\* The catch block: console.error, process.exit(1).
MainCatch ==
    /\ status = "running"
    /\ allRejected
    /\ stderr' = Append(stderr, "Error: " \o reason)
    /\ status' = "exited"
    /\ exitCode' = 1
    /\ UNCHANGED <<mappingFetch, pricesFetch, reason, items, prices, stdout, calcRan,
                   runePrice, profitableItems, displayRan, table, summary>>

Next ==
    \/ MappingResponse
    \/ MappingHttpError
    \/ MappingJson
    \/ MappingJsonError
    \/ PricesResponse
    \/ PricesHttpError
    \/ PricesJson
    \/ PricesJsonError
    \/ MainResume
    \/ MainCatch

Spec == Init /\ [][Next]_vars

\* ------------------------------------------------------------- properties

\* The catalog entry a record was built from, and the record, by the fields
\* they share.
EntryKey(item) == <<item.id, item.name, item.members, item.highalch, item.limit>>

RecordKey(r) == <<r.id, r.name, r.members, Some(r.highAlchValue), r.buyLimit>>

\* The entry's quote, when the price map has one.
HasQuote(item) == ToString(item.id) \in DOMAIN prices

QuoteOf(item) == prices[ToString(item.id)]

\* The entry qualifies as the claim C2 words it: a present alchemy value > 0,
\* a recorded (non-null) high price, and a positive difference.
QualifiesAsClaimed(item) ==
    /\ item.highalch # Null
    /\ item.highalch[1] > 0
    /\ HasQuote(item)
    /\ QuoteOf(item).high # Null
    /\ item.highalch[1] - QuoteOf(item).high[1] - runePrice > 0

\* ... and with a high price of 0 counted as not recorded.
Qualifies(item) ==
    /\ QualifiesAsClaimed(item)
    /\ QuoteOf(item).high[1] # 0

NumRecordsOf(item) ==
    Cardinality({i \in DOMAIN profitableItems : RecordKey(profitableItems[i]) = EntryKey(item)})

NumEntriesLike(item) ==
    Cardinality({j \in DOMAIN items : items[j] = item})

MaxOf(S) == CHOOSE m \in S : \A x \in S : x <= m

\* C1: every record's profit is its alchemy value minus its buy price minus
\* the reagent cost of the call, the buy price is the high price quoted for
\* the record's item, and the profit is positive.
C1_ProfitFormula ==
    calcRan =>
        \A i \in DOMAIN profitableItems :
            LET r == profitableItems[i]
            IN  /\ r.profit = r.highAlchValue - r.buyPrice - runePrice
                /\ r.profit > 0
                /\ ToString(r.id) \in DOMAIN prices
                /\ prices[ToString(r.id)].high = Some(r.buyPrice)
                /\ \E j \in DOMAIN items : EntryKey(items[j]) = RecordKey(r)

C1_Witness ==
    /\ calcRan
    /\ Len(profitableItems) = 2
    /\ profitableItems[1].profit # profitableItems[2].profit
    /\ ToString(561) \in DOMAIN prices
    /\ runePrice = 150

\* C2 as claimed: the records are exactly the entries with a present alchemy
\* value > 0, a non-null high price and a positive difference, one record for
\* each such entry.
C2_EmitsIffRecorded ==
    calcRan =>
        /\ \A j \in DOMAIN items :
               NumRecordsOf(items[j]) =
                   IF QualifiesAsClaimed(items[j]) THEN NumEntriesLike(items[j]) ELSE 0
        /\ \A i \in DOMAIN profitableItems :
               \E j \in DOMAIN items : EntryKey(items[j]) = RecordKey(profitableItems[i])

\* C2 amended: the same, with the high price required to be non-null and
\* not 0. An entry whose alchemy value is null or <= 0 has no record.
C2_EmitsIffQualifies ==
    calcRan =>
        /\ \A j \in DOMAIN items :
               NumRecordsOf(items[j]) =
                   IF Qualifies(items[j]) THEN NumEntriesLike(items[j]) ELSE 0
        /\ \A i \in DOMAIN profitableItems :
               \E j \in DOMAIN items : EntryKey(items[j]) = RecordKey(profitableItems[i])
        /\ \A j \in DOMAIN items :
               (items[j].highalch = Null \/ items[j].highalch[1] <= 0)
                   => NumRecordsOf(items[j]) = 0

C2_Witness ==
    /\ calcRan
    /\ Len(items) = 2
    /\ Len(profitableItems) = 1
    /\ \E j \in DOMAIN items : HasQuote(items[j]) /\ QuoteOf(items[j]).high = Some(0)

\* The keys of the records with profit p, in output order.
RECURSIVE EmittedKeys(_, _)
EmittedKeys(p, i) ==
    IF i > Len(profitableItems) THEN <<>>
    ELSE IF profitableItems[i].profit = p
         THEN <<RecordKey(profitableItems[i])>> \o EmittedKeys(p, i + 1)
         ELSE EmittedKeys(p, i + 1)

\* The keys of the qualifying catalog entries with profit p, in catalog order.
RECURSIVE CatalogKeys(_, _)
CatalogKeys(p, j) ==
    IF j > Len(items) THEN <<>>
    ELSE IF Qualifies(items[j]) /\ items[j].highalch[1] - QuoteOf(items[j]).high[1] - runePrice = p
         THEN <<EntryKey(items[j])>> \o CatalogKeys(p, j + 1)
         ELSE CatalogKeys(p, j + 1)

\* C3: the records are in descending order of profit, and the records of
\* equal profit are in the order of their entries in the catalog.
C3_SortedStable ==
    calcRan =>
        /\ \A i \in 1..(Len(profitableItems) - 1) :
               profitableItems[i].profit >= profitableItems[i + 1].profit
        /\ \A i \in DOMAIN profitableItems :
               EmittedKeys(profitableItems[i].profit, 1) = CatalogKeys(profitableItems[i].profit, 1)

C3_Witness ==
    /\ calcRan
    /\ Len(profitableItems) >= 3
    /\ \E i \in 1..(Len(profitableItems) - 1) :
           /\ profitableItems[i].profit = profitableItems[i + 1].profit
           /\ profitableItems[i].id # profitableItems[i + 1].id
    /\ \E i \in 1..(Len(profitableItems) - 1) :
           profitableItems[i].profit > profitableItems[i + 1].profit
    /\ \E a, b \in DOMAIN items :
           /\ a < b
           /\ Qualifies(items[a]) /\ Qualifies(items[b])
           /\ items[a].highalch[1] - QuoteOf(items[a]).high[1]
                  < items[b].highalch[1] - QuoteOf(items[b]).high[1]

\* C4 as claimed: batchProfit is profit times the limit whenever the limit is
\* present (0 included), and profit times 1000 otherwise.
C4_BatchProfitIfPresent ==
    calcRan =>
        \A i \in DOMAIN profitableItems :
            LET r == profitableItems[i]
            IN  r.batchProfit = r.profit * (IF r.buyLimit # Null THEN r.buyLimit[1] ELSE 1000)

\* C4 amended: batchProfit is profit times the limit when the limit is
\* present and not 0, and profit times 1000 when it is null or 0.
C4_BatchProfitIfTruthy ==
    calcRan =>
        \A i \in DOMAIN profitableItems :
            LET r == profitableItems[i]
            IN  r.batchProfit =
                    r.profit * (IF r.buyLimit # Null /\ r.buyLimit[1] # 0
                                THEN r.buyLimit[1] ELSE 1000)

C4_Witness ==
    /\ calcRan
    /\ \E i, j \in DOMAIN profitableItems :
           /\ profitableItems[i].buyLimit = Some(0)
           /\ profitableItems[i].batchProfit = profitableItems[i].profit * 1000
           /\ profitableItems[j].buyLimit = Some(3)
           /\ profitableItems[j].batchProfit = profitableItems[j].profit * 3

\* The reagent cost the records were computed with.
RuneCostIs(c) ==
    /\ runePrice = c
    /\ \A i \in DOMAIN profitableItems :
           profitableItems[i].highAlchValue - profitableItems[i].buyPrice
               - profitableItems[i].profit = c

\* C5 as claimed: the reagent cost is the high price of "561" when that is
\* recorded (non-null), and 100 when there is no entry or no high price.
C5_RuneCostIfRecorded ==
    calcRan =>
        IF "561" \in DOMAIN prices /\ prices["561"].high # Null
        THEN RuneCostIs(prices["561"].high[1])
        ELSE RuneCostIs(100)

\* C5 amended: the reagent cost is the high price of "561" when that is
\* recorded and not 0, and 100 when there is no entry, no high price, or a
\* high price of 0.
C5_RuneCostIfTruthy ==
    calcRan =>
        IF "561" \in DOMAIN prices /\ prices["561"].high # Null /\ prices["561"].high[1] # 0
        THEN RuneCostIs(prices["561"].high[1])
        ELSE RuneCostIs(100)

C5_Witness ==
    /\ calcRan
    /\ "561" \in DOMAIN prices
    /\ prices["561"].high = Some(150)
    /\ Len(profitableItems) > 0
    /\ profitableItems[1].profit = profitableItems[1].highAlchValue - profitableItems[1].buyPrice - 150

\* A fetch has failed: a non-success status or an undecodable body.
fetchFailed == mappingFetch = "rejected" \/ pricesFetch = "rejected"

\* What only displayResults writes.
PresenterOutput ==
    \/ table # <<>>
    \/ summary # NoSummary
    \/ \E i \in DOMAIN stdout :
           stdout[i] \in {"console.table(tableData)", "SUMMARY:", "Completed in N seconds"}

\* C6: once a fetch has failed, the calculator and the presenter never run
\* and nothing of the table or the summary is printed; the run can only go on
\* to the catch block, and it has ended with exit status 1 and exactly one
\* error message on stderr. The calculator runs only after both fetches have
\* succeeded.
C6_FailedRunExitsOne ==
    /\ fetchFailed =>
           /\ ~calcRan
           /\ ~displayRan
           /\ ~PresenterOutput
           /\ ~ENABLED MainResume
           /\ status = "running" => (ENABLED MainCatch /\ stderr = <<>>)
           /\ status = "exited" => (exitCode = 1 /\ Len(stderr) = 1)
    /\ calcRan => (mappingFetch = "resolved" /\ pricesFetch = "resolved")

C6_Witness ==
    /\ mappingFetch = "resolved"
    /\ pricesFetch = "rejected"
    /\ Len(items) > 0
    /\ status = "exited"
    /\ exitCode = 1
    /\ Len(stderr) = 1

NoProfitNotice == "No profitable High Alchemy items found at current prices."

\* C7: a run whose fetches both succeeded and whose calculator returned no
\* record has printed the notice, has not run the presenter (no table, no
\* summary, no elapsed-duration line), and has ended with exit status 0.
C7_EmptyResultExitsZero ==
    (status = "exited" /\ mappingFetch = "resolved" /\ pricesFetch = "resolved"
        /\ profitableItems = <<>>) =>
        /\ \E i \in DOMAIN stdout : stdout[i] = NoProfitNotice
        /\ ~displayRan
        /\ ~PresenterOutput
        /\ exitCode = 0
        /\ stderr = <<>>

C7_Witness ==
    /\ status = "exited"
    /\ calcRan
    /\ Len(items) = 2
    /\ profitableItems = <<>>
    /\ exitCode = 0
    /\ \E i \in DOMAIN stdout : stdout[i] = NoProfitNotice

\* C8: the best-batch line of the summary names a record whose batchProfit is
\* the largest of the records passed to the presenter, with that batchProfit.
C8_BestBatchIsMaxBatch ==
    displayRan =>
        \E i \in DOMAIN profitableItems :
            /\ profitableItems[i].batchProfit =
                   MaxOf({profitableItems[j].batchProfit : j \in DOMAIN profitableItems})
            /\ summary.bestBatchName = profitableItems[i].name
            /\ summary.bestBatch = formatPrice(profitableItems[i].batchProfit)

\* C9: the reagent cost of the summary is the reagent cost the calculator
\* used in the same run.
C9_SummaryRuneCostIsUsed ==
    displayRan => summary.natureRuneCost = formatPrice(runePrice)

\* C10: the table has min(n, 50) rows, row i is built from record i and
\* numbered i, and the total of the summary is n.
C10_TableIsFirstFifty ==
    displayRan =>
        LET n == Len(profitableItems)
        IN  /\ Len(table) = (IF n < 50 THEN n ELSE 50)
            /\ \A i \in DOMAIN table :
                   /\ table[i].num = i
                   /\ \E now \in NowChoices : table[i] = tableRow(profitableItems[i], i - 1, now)
            /\ summary.total = n
            /\ \E k \in DOMAIN stdout :
                   stdout[k] = "Found " \o ToString(n)
                                   \o " profitable items (sorted by profit per item)"

C10_Witness ==
    /\ displayRan
    /\ Len(profitableItems) = 51
    /\ Len(table) = 50
    /\ summary.total = 51
    /\ table[50].Item = truncateName(profitableItems[50].name)

=============================================================================
